---- MODULE Spec2Model ----
(***************************************************************************)
(* The trigger-action runtime of triggered/server.py: RuntimeManager       *)
(* (load from disk, spawn watchers, the single dispatcher, hot-add) and    *)
(* the application's shutdown handler, on one asyncio event loop.  Every   *)
(* action is one uninterrupted run of a coroutine between two suspension   *)
(* points.  Further specifications, on the same variables, cover the type  *)
(* registry (registry.py), configuration validation (core.py) and the AI   *)
(* trigger (triggers/ai.py) with its one-shot run (cli.py).                *)
(***************************************************************************)
EXTENDS Naturals, Sequences, FiniteSets, TLC

VARIABLES
    files,            \* TRIGGER_ACTIONS_DIR: file name -> file content
    examples,         \* EXAMPLES_DIR: file name -> file content
    trigger_actions,  \* RuntimeManager.trigger_actions (the live set)
    _watcher_tasks,   \* RuntimeManager._watcher_tasks
    _queue,           \* RuntimeManager._queue (asyncio.Queue, unbounded)
    RECENT_EVENTS,    \* the module-level list RECENT_EVENTS
    attempts,         \* the calls of execute_action.apply_async, in call order
    emitted,          \* history: the events put on _queue, in put order
    now,              \* the clock read by TriggerContext's fired_at default
    phase,            \* position of the application: init, running, ...
    dispatcher,       \* the task running RuntimeManager._dispatcher
    adds,             \* history: number of calls of add_trigger_action
    response,         \* the outcome of the last management call
    cancel_mark,      \* history: Len(emitted) when on_shutdown cancelled
    hooks,            \* app.router's mounted webhook routes, triggers' inboxes
    registry,         \* registry.TRIGGER_REGISTRY and registry.ACTION_REGISTRY
    ai,               \* one AITrigger: its watch task and its last evaluation
    call,             \* one call of validate_config or validate and its result
    worker,           \* one Celery task triggered.execute_action and its runs
    folder            \* one FolderMonitorTrigger and the folder it watches

runtime_vars == <<files, examples, trigger_actions, _watcher_tasks, _queue,
                  RECENT_EVENTS, attempts, emitted, now, phase, dispatcher,
                  adds, response, cancel_mark, hooks>>

\* What the scheduler's own steps never touch.
other_vars == <<registry, ai, call, worker, folder>>

vars == <<runtime_vars, other_vars>>

----------------------------------------------------------------------------
(* Bounds of the model *)

MaxEvents == 2   \* events fired by all watchers together
MaxAdds == 1     \* calls of add_trigger_action
MaxCalls == 2    \* calls of a validation function on one input
MaxChunks == 2   \* pieces of a model response

----------------------------------------------------------------------------
(* Values *)

Ids == {"a", "b"}
Types == {"cron", "nosuch"}
Params == {0, 1}

\* registry.TRIGGER_REGISTRY after the trigger modules were imported, cut
\* down to the registered types the model uses.
TRIGGER_REGISTRY == {"cron", "webhook"}

\* The text of a definition file: valid = FALSE is text that json.loads or
\* TriggerAction.model_validate rejects.
Definition(id, type, p) ==
    [valid |-> TRUE, id |-> id, auth_key |-> "k", trigger |-> type, params |-> p]

Malformed ==
    [valid |-> FALSE, id |-> "", auth_key |-> "", trigger |-> "", params |-> 0]

Definitions == {Definition(id, t, p) : id \in Ids, t \in Types, p \in Params}

FileName(stem) == stem \o ".json"

\* A directory with files named by the stems of S, each holding one of C.
Dirs(S, C) == UNION {[{FileName(s) : s \in T} -> C] : T \in SUBSET S}

\* The orders in which Path.glob may yield the files of a directory.
GlobOrders(dir) ==
    LET n == Cardinality(DOMAIN dir)
    IN  {o \in [1..n -> DOMAIN dir] : \A i, j \in 1..n : o[i] = o[j] => i = j}

\* TriggerAction.model_validate(json.loads(text)) followed by the
\* assignment of ta.filename.
TriggerAction(text, name) ==
    [id |-> text.id, auth_key |-> text.auth_key, trigger |-> text.trigger,
     params |-> text.params, filename |-> name]

\* json.dumps(ta.model_dump(mode="json")): the file text of a binding.
Dump(d) ==
    [valid |-> TRUE, id |-> d.id, auth_key |-> d.auth_key,
     trigger |-> d.trigger, params |-> d.params]

IdsOf(tas) == {tas[i].id : i \in DOMAIN tas}

----------------------------------------------------------------------------
(* RuntimeManager._load_from_disk *)

\* The two except clauses of the load loops: log and go on with the next file.
LoadErrorAbort(st) == [st EXCEPT !.raised = TRUE]

LoadError(st) == st

\* Body of the first loop (TRIGGER_ACTIONS_DIR): no look at the ids loaded.
LoadPrimaryFile(st, text, name) ==
    IF text.valid
    THEN [st EXCEPT !.tas = Append(@, TriggerAction(text, name))]
    ELSE LoadError(st)

\* Body of the second loop (EXAMPLES_DIR): skip ids that are already loaded.
LoadExampleFile(st, text, name) ==
    IF text.valid
    THEN IF text.id \in IdsOf(st.tas)
         THEN st
         ELSE [st EXCEPT !.tas = Append(@, TriggerAction(text, name))]
    ELSE LoadError(st)

RECURSIVE LoadPrimary(_, _, _)
LoadPrimary(st, dir, order) ==
    IF order = <<>> \/ st.raised THEN st
    ELSE LoadPrimary(LoadPrimaryFile(st, dir[Head(order)], Head(order)),
                     dir, Tail(order))

RECURSIVE LoadExamples(_, _, _)
LoadExamples(st, dir, order) ==
    IF order = <<>> \/ st.raised THEN st
    ELSE LoadExamples(LoadExampleFile(st, dir[Head(order)], Head(order)),
                      dir, Tail(order))

\* o1, o2: the glob orders of the two directories.
LoadFromDisk(tas, o1, o2) ==
    LoadExamples(LoadPrimary([tas |-> tas, raised |-> FALSE], files, o1),
                 examples, o2)

----------------------------------------------------------------------------
(* Watcher tasks *)

\* asyncio.create_task(trigger.watch(lambda ctx, ta=ta: ...)): the task keeps
\* the binding object it was created for.
NewTask(ta) == [ta |-> ta, state |-> "running"]

Done(t) == t.state \in {"failed", "cancelled"}

\* get_trigger(ta.trigger.type) raises ValueError for an unregistered name.
CanSpawn(ta) == ta.trigger \in TRIGGER_REGISTRY

\* hasattr(trigger, "route") and hasattr(trigger, "enqueue"): only
\* WebHookMonitorTrigger has both.  Its route is config["route"], by default
\* "/hooks/" and the trigger's name, for which the binding's id stands.
HasRoute(ta) == ta.trigger = "webhook"

route(ta) == "/hooks/" \o ta.id

\* The route mounting of _spawn_watchers: the handler of a path not yet in
\* app.router.routes is bound to the trigger of the first task with it.
MountRoutes(routes, tasks) ==
    LET mine(p) == {i \in DOMAIN tasks : HasRoute(tasks[i].ta) /\ route(tasks[i].ta) = p}
        paths == {route(tasks[i].ta) : i \in {j \in DOMAIN tasks : HasRoute(tasks[j].ta)}}
    IN  [p \in DOMAIN routes \cup paths |->
            IF p \in DOMAIN routes THEN routes[p]
            ELSE CHOOSE i \in mine(p) : \A j \in mine(p) : i <= j]

\* RuntimeManager._spawn_watchers: one task per binding, in list order, up
\* to the first binding whose trigger type get_trigger does not know.
RECURSIVE SpawnWatchers(_, _)
SpawnWatchers(st, tas) ==
    IF tas = <<>> THEN st
    ELSE IF ~CanSpawn(Head(tas)) THEN [st EXCEPT !.raised = TRUE]
    ELSE SpawnWatchers([st EXCEPT !.tasks = Append(@, NewTask(Head(tas)))],
                       Tail(tas))

----------------------------------------------------------------------------
(* The type registry: registry.py *)

\* TRIGGER_REGISTRY and ACTION_REGISTRY once the packages triggers and
\* actions are imported (the decorators ran), cut down to three types.
Imported ==
    [trigger |-> ("cron" :> "CronTrigger" @@ "ai" :> "AITrigger"),
     action |-> ("shell" :> "ShellCommandAction")]

\* TRIGGER_REGISTRY[name] = cls, ACTION_REGISTRY[name] = cls.
register_keep_first(reg, category, name, cls) ==
    IF name \in DOMAIN reg[category] THEN reg
    ELSE [reg EXCEPT ![category] = (name :> cls) @@ @]

register(reg, category, name, cls) ==
    [reg EXCEPT ![category] = (name :> cls) @@ @]

\* get_trigger / get_action: the class, or ValueError for an unknown name.
get(reg, category, name) ==
    IF name \in DOMAIN reg[category]
    THEN [raised |-> FALSE, cls |-> reg[category][name]]
    ELSE [raised |-> TRUE, cls |-> "ValueError"]

\* No AITrigger under observation, no call of a validation function.
AiIdle == [pc |-> "none"]

NoCall == [op |-> "none"]

\* No task was submitted to the worker, no folder is watched.
NoTask == [state |-> "none"]

NoFolder == [pc |-> "none"]

OthersIdle ==
    /\ registry = Imported
    /\ ai = AiIdle
    /\ call = NoCall
    /\ worker = NoTask
    /\ folder = NoFolder

----------------------------------------------------------------------------
(* Initial states *)

InitRuntime ==
    /\ trigger_actions = <<>>
    /\ _watcher_tasks = <<>>
    /\ _queue = <<>>
    /\ RECENT_EVENTS = <<>>
    /\ attempts = <<>>
    /\ emitted = <<>>
    /\ now = 0
    /\ phase = "init"
    /\ dispatcher = "none"
    /\ adds = 0
    /\ response = [op |-> "none", status |-> 0]
    /\ cancel_mark = 0
    /\ hooks = [routes |-> << >>, inbox |-> << >>]

\* Directories an operator may have filled by hand: any file name, any text.
InitLoad ==
    /\ files \in Dirs({"a", "x"}, Definitions \cup {Malformed})
    /\ examples \in Dirs({"a", "y"}, Definitions \cup {Malformed})
    /\ InitRuntime
    /\ OthersIdle

\* Directories as the program itself writes them: <id>.json holds id.
Init ==
    /\ files \in {d \in Dirs(Ids, {Definition(i, t, 0) : i \in Ids, t \in Types}) :
                    \A i \in Ids : FileName(i) \in DOMAIN d => d[FileName(i)].id = i}
    /\ examples = (FileName("a") :> Definition("a", "cron", 1))
    /\ InitRuntime
    /\ OthersIdle

\* No scheduler: the functions below are called on their own.
NoRuntime ==
    /\ files = << >>
    /\ examples = << >>
    /\ InitRuntime

----------------------------------------------------------------------------
(* RuntimeManager.start, called by on_startup *)

Start ==
    /\ phase = "init"
    /\ \E o1 \in GlobOrders(files), o2 \in GlobOrders(examples) :
         LET loaded == LoadFromDisk(trigger_actions, o1, o2)
             spawned == SpawnWatchers([tasks |-> _watcher_tasks, raised |-> FALSE],
                                      loaded.tas)
             ok == ~loaded.raised /\ ~spawned.raised
         IN  /\ trigger_actions' = loaded.tas
             /\ _watcher_tasks' = IF loaded.raised THEN _watcher_tasks
                                  ELSE spawned.tasks
             /\ hooks' = [hooks EXCEPT !.routes = MountRoutes(@, _watcher_tasks')]
             /\ dispatcher' = IF ok THEN "running" ELSE "none"
             /\ phase' = IF ok THEN "running" ELSE "startup_failed"
    /\ UNCHANGED <<files, examples, _queue, RECENT_EVENTS, attempts, emitted,
                   now, adds, response, cancel_mark>>
    /\ UNCHANGED other_vars

----------------------------------------------------------------------------
(* Watchers: Trigger.watch of every trigger type *)

\* The watch loop builds a TriggerContext (fired_at defaults to the clock)
\* and awaits queue_put(ctx), the lambda that puts (ta, ctx) on _queue.  The
\* queue is unbounded, so the put does not suspend.  by: history, the index
\* of the emitting task.
\* params: no watch loop passes params, so the context has the empty dict
\* of the default factory.
Event(i, t) ==
    [ta |-> _watcher_tasks[i].ta,
     ctx |-> [fired_at |-> t, params |-> << >>], by |-> i]

\* The dict a definition's params stand for: 0 is {}, 1 is one entry.
params_of(p) == IF p = 0 THEN << >> ELSE ("key" :> p)

\* dict.update: the entries of e, and those of d under other keys.
update(d, e) == e @@ d

\* _execute_ta_once: the context check returned, after
\* ctx.params.update(ta.params), as it is handed to ta.execute_action.
once_ctx(ta, ctx) == [ctx EXCEPT !.params = update(@, params_of(ta.params))]

LoopRuns == phase \in {"running", "stopping"}

\* self._queue = asyncio.Queue() has maxsize 0: put never waits and never
\* drops.  (With a full bounded queue a put would not get through.)
queue_put_bounded(q, item) == IF Len(q) >= 1 THEN q ELSE Append(q, item)

queue_put(q, item) == Append(q, item)

WatcherFire(i) ==
    /\ LoopRuns
    /\ _watcher_tasks[i].state = "running"
    /\ ~HasRoute(_watcher_tasks[i].ta)
    /\ Len(emitted) < MaxEvents
    /\ now' = now + 1
    /\ _queue' = queue_put(_queue, Event(i, now'))
    /\ emitted' = Append(emitted, Event(i, now'))
    /\ UNCHANGED <<files, examples, hooks, trigger_actions, _watcher_tasks,
                   RECENT_EVENTS, attempts, phase, dispatcher, adds, response, cancel_mark>>
    /\ UNCHANGED other_vars

\* An exception leaves the watch coroutine: asyncio stores it in the task,
\* which is done; nothing awaits the task before shutdown.
AfterWatcherRaiseAll(tasks, i) ==
    [j \in DOMAIN tasks |->
        IF tasks[j].state = "running"
        THEN [tasks[j] EXCEPT !.state = "failed"]
        ELSE tasks[j]]

AfterWatcherRaise(tasks, i) ==
    [tasks EXCEPT ![i].state = "failed"]

WatcherRaise(i) ==
    /\ LoopRuns
    /\ _watcher_tasks[i].state = "running"
    /\ _watcher_tasks' = AfterWatcherRaise(_watcher_tasks, i)
    /\ UNCHANGED <<files, examples, hooks, trigger_actions, _queue, RECENT_EVENTS,
                   attempts, emitted, now, phase, dispatcher, adds, response, cancel_mark>>
    /\ UNCHANGED other_vars

----------------------------------------------------------------------------
(* RuntimeManager._dispatcher: one iteration of the loop *)

\* datetime.isoformat(): the text of a timestamp.
isoformat(t) == <<"iso", t>>

AuditRecord(ev) == [id |-> ev.ta.id, time |-> isoformat(ev.ctx.fired_at)]

\* self._queue is an asyncio.Queue: get() takes the oldest item.
QueueGetLifo(q) == Len(q)

QueueGet(q) == 1

Without(q, k) == [j \in 1..(Len(q) - 1) |-> IF j < k THEN q[j] ELSE q[j + 1]]

\* RECENT_EVENTS when apply_async is called: the record of the event was
\* appended before the try block, and nothing is ever removed from the list.
RecentAtSubmitOmitted(recent, ev) == recent

RecentAtSubmit(recent, ev) == Append(recent, AuditRecord(ev))

\* The queue after the try block: the except clause only logs.
QueueAfterAttemptRetry(q, ev, ok) == IF ok THEN q ELSE Append(q, ev)

QueueAfterAttempt(q, ev, ok) == q

\* The dispatcher task after the try block: except Exception catches what
\* apply_async raises and the loop goes on.
DispatcherAfterAttemptDies(ok) == IF ok THEN "running" ELSE "dead"

DispatcherAfterAttempt(ok) == "running"

\* ok: whether execute_action.apply_async returned a task handle (TRUE) or
\* raised (FALSE).  seen: history, the length of RECENT_EVENTS when
\* apply_async was called.
Dispatch ==
    /\ LoopRuns
    /\ dispatcher = "running"
    /\ _queue # <<>>
    /\ \E ok \in BOOLEAN :
         LET k == QueueGet(_queue)
             ev == _queue[k]
             recent == RecentAtSubmit(RECENT_EVENTS, ev)
         IN  /\ attempts' = Append(attempts,
                                   [ev |-> ev, ok |-> ok, seen |-> Len(recent)])
             /\ RECENT_EVENTS' = recent
             /\ _queue' = QueueAfterAttempt(Without(_queue, k), ev, ok)
             /\ dispatcher' = DispatcherAfterAttempt(ok)
    /\ UNCHANGED <<files, examples, hooks, trigger_actions, _watcher_tasks, emitted,
                   now, phase, adds, response, cancel_mark>>
    /\ UNCHANGED other_vars

----------------------------------------------------------------------------
(* create_trigger (POST /trigger_actions) and RuntimeManager.add_trigger_action *)

\* The watcher part of add_trigger_action: one task for the new binding.
SpawnAgain(tasks, ta) ==
    SpawnWatchers([tasks |-> tasks, raised |-> FALSE],
                  Append(trigger_actions, ta)).tasks

SpawnOne(tasks, ta) == Append(tasks, NewTask(ta))

\* body: the request body.  A body that model_validate rejects is answered
\* 400 before add_trigger_action is called.  add_trigger_action writes the
\* file and appends to the live set before it resolves the trigger type, so
\* both stay when get_trigger raises (answered 500).
CreateTrigger(body) ==
    /\ phase = "running"
    /\ adds < MaxAdds
    /\ IF ~body.valid
       THEN /\ response' = [op |-> "create", status |-> 400]
            /\ UNCHANGED <<files, trigger_actions, _watcher_tasks, adds>>
       ELSE LET ta == TriggerAction(body, FileName(body.id))
            IN  /\ files' = (FileName(ta.id) :> Dump(ta)) @@ files
                /\ trigger_actions' = Append(trigger_actions, ta)
                /\ adds' = adds + 1
                /\ IF CanSpawn(ta)
                   THEN /\ _watcher_tasks' = SpawnOne(_watcher_tasks, ta)
                        /\ response' = [op |-> "create", status |-> 200]
                   ELSE /\ _watcher_tasks' = _watcher_tasks
                        /\ response' = [op |-> "create", status |-> 500]
    /\ UNCHANGED <<examples, hooks, _queue, RECENT_EVENTS, attempts, emitted, now,
                   phase, dispatcher, cancel_mark>>
    /\ UNCHANGED other_vars

Bodies == {Definition("a", "cron", 1), Definition("b", "nosuch", 1), Malformed}

----------------------------------------------------------------------------
(* on_shutdown *)

\* for task in runtime._watcher_tasks: task.cancel().  Cancelling a task
\* that is done changes nothing.
CancelAllButLast(tasks) ==
    [j \in DOMAIN tasks |->
        IF tasks[j].state = "running" /\ j < Len(tasks)
        THEN [tasks[j] EXCEPT !.state = "cancelling"]
        ELSE tasks[j]]

CancelAll(tasks) ==
    [j \in DOMAIN tasks |->
        IF tasks[j].state = "running"
        THEN [tasks[j] EXCEPT !.state = "cancelling"]
        ELSE tasks[j]]

\* The handler up to its await: every task gets its cancellation request.
Shutdown ==
    /\ phase = "running"
    /\ _watcher_tasks' = CancelAll(_watcher_tasks)
    /\ phase' = "stopping"
    /\ cancel_mark' = Len(emitted)
    /\ UNCHANGED <<files, examples, hooks, trigger_actions, _queue, RECENT_EVENTS,
                   attempts, emitted, now, dispatcher, adds, response>>
    /\ UNCHANGED other_vars

----------------------------------------------------------------------------
(* Webhook triggers: the mounted handler and WebHookMonitorTrigger.watch *)

\* POST path: the mounted _handler awaits tg.enqueue(payload), which puts the
\* payload on the internal queue of the trigger it was bound to (inbox: the
\* pending payloads, each with the index of that trigger's task).  A path
\* that is not mounted is answered 404 by the framework.
PostWebhook(path) ==
    /\ LoopRuns
    /\ Len(emitted) + Len(hooks.inbox) < MaxEvents
    /\ IF path \in DOMAIN hooks.routes
       THEN /\ hooks' = [hooks EXCEPT !.inbox = Append(@, hooks.routes[path])]
            /\ response' = [op |-> "hook", status |-> 200, path |-> path]
       ELSE /\ hooks' = hooks
            /\ response' = [op |-> "hook", status |-> 404, path |-> path]
    /\ UNCHANGED <<files, examples, trigger_actions, _watcher_tasks, _queue,
                   RECENT_EVENTS, attempts, emitted, now, phase, dispatcher,
                   adds, cancel_mark>>
    /\ UNCHANGED other_vars

\* The watch loop of a webhook trigger takes a payload from its internal
\* queue and puts a context on the scheduler's queue.
FirstFor(inbox, i) ==
    CHOOSE k \in DOMAIN inbox :
        inbox[k] = i /\ \A j \in DOMAIN inbox : inbox[j] = i => k <= j

WebhookWatch(i) ==
    /\ LoopRuns
    /\ _watcher_tasks[i].state = "running"
    /\ HasRoute(_watcher_tasks[i].ta)
    /\ \E k \in DOMAIN hooks.inbox : hooks.inbox[k] = i
    /\ hooks' = [hooks EXCEPT !.inbox = Without(@, FirstFor(@, i))]
    /\ now' = now + 1
    /\ _queue' = queue_put(_queue, Event(i, now'))
    /\ emitted' = Append(emitted, Event(i, now'))
    /\ UNCHANGED <<files, examples, trigger_actions, _watcher_tasks,
                   RECENT_EVENTS, attempts, phase, dispatcher, adds, response,
                   cancel_mark>>
    /\ UNCHANGED other_vars

\* The event loop throws CancelledError into the watch coroutine at the
\* await it is suspended on; no watch loop catches it, so the task ends.
WatcherCancelled(i) ==
    /\ LoopRuns
    /\ _watcher_tasks[i].state = "cancelling"
    /\ _watcher_tasks' = [_watcher_tasks EXCEPT ![i].state = "cancelled"]
    /\ UNCHANGED <<files, examples, hooks, trigger_actions, _queue, RECENT_EVENTS,
                   attempts, emitted, now, phase, dispatcher, adds, response, cancel_mark>>
    /\ UNCHANGED other_vars

\* asyncio.gather(*tasks, return_exceptions=True) is over once every task
\* is done, whether it was cancelled or had raised.
GatherOver(tasks) == \A j \in DOMAIN tasks : Done(tasks[j])

ShutdownDone ==
    /\ phase = "stopping"
    /\ GatherOver(_watcher_tasks)
    /\ phase' = "stopped"
    /\ UNCHANGED <<files, examples, hooks, trigger_actions, _watcher_tasks, _queue,
                   RECENT_EVENTS, attempts, emitted, now, dispatcher, adds,
                   response, cancel_mark>>
    /\ UNCHANGED other_vars

----------------------------------------------------------------------------
(* Specifications *)

\* Webhook bindings: one may be on disk at startup, others are hot-added.
WebBodies == {Definition("a", "webhook", 1), Definition("b", "webhook", 1)}

WebPaths == {"/hooks/a", "/hooks/b"}

InitWeb ==
    /\ files \in {<< >>, FileName("a") :> Definition("a", "webhook", 0),
                  FileName("b") :> Definition("b", "webhook", 0)}
    /\ examples = << >>
    /\ InitRuntime
    /\ OthersIdle

NextWeb ==
    \/ Start
    \/ \E body \in WebBodies : CreateTrigger(body)
    \/ \E path \in WebPaths : PostWebhook(path)
    \/ \E i \in DOMAIN _watcher_tasks : WebhookWatch(i)
    \/ Dispatch

WebSpec == InitWeb /\ [][NextWeb]_vars

NextLoad == Start

\* The load alone, over hand-filled directories.
LoadSpec == InitLoad /\ [][NextLoad]_vars

Next ==
    \/ Start
    \/ \E i \in DOMAIN _watcher_tasks : WatcherFire(i)
    \/ \E i \in DOMAIN _watcher_tasks : WatcherRaise(i)
    \/ Dispatch
    \/ \E body \in Bodies : CreateTrigger(body)
    \/ Shutdown
    \/ \E i \in DOMAIN _watcher_tasks : WatcherCancelled(i)
    \/ ShutdownDone

Spec == Init /\ [][Next]_vars

\* The scheduler from startup to shutdown, without management calls.
NextLive ==
    \/ Start
    \/ \E i \in DOMAIN _watcher_tasks : WatcherFire(i)
    \/ \E i \in DOMAIN _watcher_tasks : WatcherRaise(i)
    \/ Dispatch
    \/ Shutdown
    \/ \E i \in DOMAIN _watcher_tasks : WatcherCancelled(i)
    \/ ShutdownDone

\* The event loop runs every task that is ready: the dispatcher, ready once
\* the queue has an item, gets its turn.
LiveSpec == Init /\ [][NextLive]_vars /\ WF_vars(Dispatch)

----------------------------------------------------------------------------
(* Shorthands of the properties *)

Loaded == phase # "init"

DistinctIds(tas) ==
    \A i, j \in DOMAIN tas : tas[i].id = tas[j].id => i = j

InLiveSet(ta) == \E i \in DOMAIN trigger_actions : trigger_actions[i] = ta

\* The valid files of both directories that carry the id.
FilesWithId(id) ==
    {<<"files", f>> : f \in {g \in DOMAIN files : files[g].valid /\ files[g].id = id}}
    \cup
    {<<"examples", f>> : f \in {g \in DOMAIN examples :
                                  examples[g].valid /\ examples[g].id = id}}

----------------------------------------------------------------------------
(* Properties of the load *)

\* C5: after loading from disk no two bindings of the live set share an id,
\* whichever files carry the same id (same directory or different ones).
C5_UniqueIdsAfterLoad == Loaded => DistinctIds(trigger_actions)

\* C6: a file that does not parse or validate is skipped and the load goes
\* on: once the load is over, every well-formed file of TRIGGER_ACTIONS_DIR
\* is in the live set under its file name, the id of every well-formed file
\* of EXAMPLES_DIR is in the live set, and an example file whose id no other
\* file carries is in the live set under its file name.
C6_MalformedSkipped ==
    Loaded =>
      /\ \A f \in DOMAIN files :
           files[f].valid => InLiveSet(TriggerAction(files[f], f))
      /\ \A f \in DOMAIN examples :
           examples[f].valid =>
             /\ examples[f].id \in IdsOf(trigger_actions)
             /\ Cardinality(FilesWithId(examples[f].id)) = 1
                  => InLiveSet(TriggerAction(examples[f], f))

\* A load over two directories that each hold a malformed file and a
\* well-formed one, both well-formed files being in the live set.
C6_Witness ==
    /\ Loaded
    /\ \E f, g \in DOMAIN files : ~files[f].valid /\ files[g].valid
    /\ \E f, g \in DOMAIN examples :
         /\ ~examples[f].valid /\ examples[g].valid
         /\ InLiveSet(TriggerAction(examples[g], g))
    /\ Len(trigger_actions) = 2

----------------------------------------------------------------------------
(* Properties of the dispatcher *)

Attempted(e) == \E i \in DOMAIN attempts : attempts[i].ev = e

Queued(e) == \E i \in DOMAIN _queue : _queue[i] = e

\* C1: the submission attempts follow the order of the puts on the shared
\* queue: when an event has been attempted, every event put before it (by
\* the same watcher or another one) was attempted earlier.
C1_DispatchOrder ==
    \A j \in DOMAIN attempts : \A k1, k2 \in DOMAIN emitted :
        (k1 < k2 /\ attempts[j].ev = emitted[k2])
            => \E i \in 1..(j - 1) : attempts[i].ev = emitted[k1]

\* Two events of different watchers, both attempted.
C1_Witness ==
    /\ Len(attempts) >= 2
    /\ attempts[1].ev.by # attempts[2].ev.by

\* C2: every event put on the queue is dequeued exactly once and submitted
\* at most once: it is either still queued (once) or was attempted (once),
\* never both, also when its submission raised.
C2_AtMostOnce ==
    \A k \in DOMAIN emitted :
        Cardinality({i \in DOMAIN attempts : attempts[i].ev = emitted[k]})
          + Cardinality({i \in DOMAIN _queue : _queue[i] = emitted[k]}) = 1

\* A submission raised, the dispatcher went on to a later event and the
\* queue is drained: the failed event was not tried again.
C2_Witness ==
    /\ Len(attempts) >= 2
    /\ ~attempts[1].ok
    /\ _queue = <<>>

\* C3: once a submission has raised, the dispatcher is still running and
\* able to take the next queued event, the failed event is gone from the
\* queue, and no other event was dropped: each is attempted or still queued.
C3_SurvivesFailure ==
    \A i \in DOMAIN attempts :
        ~attempts[i].ok =>
            /\ dispatcher = "running"
            /\ (LoopRuns /\ _queue # <<>>) => ENABLED Dispatch
            /\ ~Queued(attempts[i].ev)
            /\ \A k \in DOMAIN emitted : Attempted(emitted[k]) \/ Queued(emitted[k])

\* A submission raised and the dispatcher, still running, then submitted an
\* event that was fired later.
C3_Witness ==
    /\ Len(attempts) >= 2
    /\ ~attempts[1].ok
    /\ attempts[2].ok
    /\ attempts[2].ev.ctx.fired_at > attempts[1].ev.ctx.fired_at
    /\ dispatcher = "running"

\* C9: the recent-events log is bounded by a fixed maximum, old records being
\* discarded.  The model scales the maximum to the number of events it can
\* dispatch: a log that discards old records never holds MaxEvents records.
C9_RecentEventsBounded == Len(RECENT_EVENTS) < MaxEvents

\* C10: every attempt was made with the audit record of its event already at
\* the end of the log, so the log lists exactly the dequeued events, in
\* dequeue order, each with the binding id and the text of fired_at, the
\* events whose submission raised included.
C10_AuditBeforeSubmit ==
    /\ Len(RECENT_EVENTS) = Len(attempts)
    /\ \A i \in DOMAIN attempts :
        /\ attempts[i].seen = i
        /\ RECENT_EVENTS[i].id = attempts[i].ev.ta.id
        /\ RECENT_EVENTS[i].time = isoformat(attempts[i].ev.ctx.fired_at)

\* The log holds the record of an event whose submission raised, followed
\* by the record of an event of another binding.
C10_Witness ==
    /\ Len(RECENT_EVENTS) >= 2
    /\ ~attempts[1].ok
    /\ RECENT_EVENTS[1].id # RECENT_EVENTS[2].id

----------------------------------------------------------------------------
(* Properties of hot-add, watchers and shutdown *)

\* C4: a call of add_trigger_action that returns (the request is answered
\* 200) writes the binding to <id>.json, appends it to the live set and
\* appends exactly one task, for that binding, to the watcher tasks; the
\* tasks and bindings that were there and the queue are as before.
C4_HotAdd ==
    [][(adds' = adds + 1 /\ response'.status = 200) =>
         LET n == Len(trigger_actions')
             ta == trigger_actions'[n]
         IN  /\ n = Len(trigger_actions) + 1
             /\ SubSeq(trigger_actions', 1, n - 1) = trigger_actions
             /\ FileName(ta.id) \in DOMAIN files'
             /\ files'[FileName(ta.id)].valid
             /\ files'[FileName(ta.id)].id = ta.id
             /\ files'[FileName(ta.id)].params = ta.params
             /\ Len(_watcher_tasks') = Len(_watcher_tasks) + 1
             /\ SubSeq(_watcher_tasks', 1, Len(_watcher_tasks)) = _watcher_tasks
             /\ _watcher_tasks'[Len(_watcher_tasks')].ta = ta
             /\ _watcher_tasks'[Len(_watcher_tasks')].state = "running"
             /\ _queue' = _queue
             /\ dispatcher' = dispatcher]_vars

\* A binding was hot-added to a scheduler that had two watchers and a
\* queued event.
C4_Witness ==
    /\ adds = 1
    /\ response = [op |-> "create", status |-> 200]
    /\ Len(_watcher_tasks) = 3
    /\ _queue # <<>>
    /\ \A i \in DOMAIN _watcher_tasks : _watcher_tasks[i].state = "running"

\* C7: from the moment on_shutdown has cancelled, no watcher task spawned so
\* far (at load or by hot-add) is running and no event is put on the queue;
\* the handler is over only when every task is done; and while it waits,
\* either a task still has its cancellation to take or the gather can end,
\* tasks that had raised included.
C7_Shutdown ==
    /\ phase \in {"stopping", "stopped"} =>
         /\ \A i \in DOMAIN _watcher_tasks : _watcher_tasks[i].state # "running"
         /\ Len(emitted) = cancel_mark
    /\ phase = "stopped" => \A i \in DOMAIN _watcher_tasks : Done(_watcher_tasks[i])
    /\ phase = "stopping" =>
         \/ \E i \in DOMAIN _watcher_tasks : ENABLED WatcherCancelled(i)
         \/ ENABLED ShutdownDone

\* Shutdown is over with a watcher that had raised, a loaded watcher and a
\* hot-added watcher, after events were pushed.
C7_Witness ==
    /\ phase = "stopped"
    /\ adds = 1
    /\ Len(_watcher_tasks) = 3
    /\ _watcher_tasks[1].state = "failed"
    /\ _watcher_tasks[2].state = "cancelled"
    /\ _watcher_tasks[3].state = "cancelled"
    /\ emitted # <<>>

\* C8: a watcher task that has raised stays failed (nobody restarts it), and
\* the step in which it raises changes no other task, nor the dispatcher, the
\* queue or the live set; every other running watcher can still fire and the
\* dispatcher can still take what is queued.
C8_WatcherFailureIsolated ==
    /\ [](\A i, j \in DOMAIN _watcher_tasks :
            (_watcher_tasks[i].state = "failed" /\ phase = "running") =>
               /\ dispatcher = "running"
               /\ _queue # <<>> => ENABLED Dispatch
               /\ (_watcher_tasks[j].state = "running" /\ Len(emitted) < MaxEvents)
                     => ENABLED WatcherFire(j))
    /\ [][\A i \in DOMAIN _watcher_tasks :
            /\ _watcher_tasks[i].state = "failed"
                 => (i \in DOMAIN _watcher_tasks' /\ _watcher_tasks'[i] = _watcher_tasks[i])
            /\ (_watcher_tasks[i].state = "running" /\ _watcher_tasks'[i].state = "failed")
                 => /\ \A j \in DOMAIN _watcher_tasks \ {i} :
                          _watcher_tasks'[j] = _watcher_tasks[j]
                    /\ Len(_watcher_tasks') = Len(_watcher_tasks)
                    /\ UNCHANGED <<dispatcher, _queue, trigger_actions, phase>>]_vars

\* A watcher has raised; an event of another watcher was attempted, that
\* watcher is still running and the queue holds one more event for the
\* running dispatcher.
C8_Witness ==
    /\ phase = "running"
    /\ _watcher_tasks[1].state = "failed"
    /\ Len(_watcher_tasks) >= 2
    /\ _watcher_tasks[2].state = "running"
    /\ \E i \in DOMAIN attempts : attempts[i].ev.by = 2
    /\ \E i \in DOMAIN _queue : _queue[i].by = 2
    /\ dispatcher = "running"

----------------------------------------------------------------------------
(* Model responses and extract_json_from_response: triggers/ai.py *)

\* A response is a sequence of tokens; its text is their concatenation.
\* Prose tokens hold no brace, no backtick and no white space of their own.
IsWs(t) == t \in {" ", "\n"}

\* The code-fence marker, three backticks, which a string of this module
\* cannot spell.
Fence == "<fence>"

\* The members an object of a response may hold, as "key": value tokens.
MemberTokens ==
    {"\"trigger\": true", "\"trigger\": false", "\"trigger\": \"false\"",
     "\"trigger\": 1", "\"reason\": \"ok\""}

MemberKey(t) == IF t = "\"reason\": \"ok\"" THEN "reason" ELSE "trigger"

\* The value of a member, in its JSON spelling: "\"false\"" is the string
\* false, "false" the boolean.
MemberValue(t) ==
    CASE t = "\"trigger\": true" -> "true"
      [] t = "\"trigger\": false" -> "false"
      [] t = "\"trigger\": \"false\"" -> "\"false\""
      [] t = "\"trigger\": 1" -> "1"
      [] t = "\"reason\": \"ok\"" -> "\"ok\""

RECURSIVE Str(_)
Str(s) == IF s = << >> THEN "" ELSE Head(s) \o Str(Tail(s))

RECURSIVE SkipWs(_, _)
SkipWs(s, i) == IF i <= Len(s) /\ IsWs(s[i]) THEN SkipWs(s, i + 1) ELSE i

\* json.loads raising JSONDecodeError.
JSONDecodeError == [ok |-> FALSE, next |-> 0, kind |-> "none", dict |-> << >>]

\* The rest of an object after one member: "}" or "," and another member.
\* A later member with the same key replaces the earlier one.
RECURSIVE AfterMember(_, _, _)
AfterMember(s, i, d) ==
    LET j == SkipWs(s, i)
        k == SkipWs(s, j + 1)
    IN  IF j > Len(s) THEN JSONDecodeError
        ELSE IF s[j] = "}"
             THEN [ok |-> TRUE, next |-> j + 1, kind |-> "dict", dict |-> d]
        ELSE IF s[j] = "," /\ k <= Len(s) /\ s[k] \in MemberTokens
             THEN AfterMember(s, k + 1,
                              (MemberKey(s[k]) :> MemberValue(s[k])) @@ d)
        ELSE JSONDecodeError

\* The object that starts with the "{" at i.
ObjectAt(s, i) ==
    LET j == SkipWs(s, i + 1)
    IN  IF j > Len(s) THEN JSONDecodeError
        ELSE IF s[j] = "}"
             THEN [ok |-> TRUE, next |-> j + 1, kind |-> "dict", dict |-> << >>]
        ELSE IF s[j] \in MemberTokens
             THEN AfterMember(s, j + 1, (MemberKey(s[j]) :> MemberValue(s[j])))
        ELSE JSONDecodeError

\* json.loads: one value (an object or the number 1) with white space
\* around it and nothing else.
loads(s) ==
    LET i == SkipWs(s, 1)
        v == IF i > Len(s) THEN JSONDecodeError
             ELSE IF s[i] = "1"
                  THEN [ok |-> TRUE, next |-> i + 1, kind |-> "number",
                        dict |-> << >>]
             ELSE IF s[i] = "{" THEN ObjectAt(s, i)
             ELSE JSONDecodeError
    IN  IF v.ok /\ SkipWs(s, v.next) > Len(s) THEN v ELSE JSONDecodeError

Least(S) == CHOOSE x \in S : \A y \in S : x <= y

NoMatch == [found |-> FALSE, groups |-> 0, text |-> << >>]

\* re.search with the fenced pattern: the leftmost fence (with or without
\* the tag json, then any white space) followed by "{", and from there the
\* shortest stretch to a "}" that white space and a fence follow.  group(1)
\* is the stretch.
FenceOpen(s, i) ==
    IF i < Len(s) /\ s[i + 1] = "json" THEN SkipWs(s, i + 2)
    ELSE SkipWs(s, i + 1)

FenceClose(s, j) ==
    {k \in (j + 1)..Len(s) :
        /\ s[k] = "}"
        /\ SkipWs(s, k + 1) <= Len(s)
        /\ s[SkipWs(s, k + 1)] = Fence}

fenced_search(s) ==
    LET starts == {i \in 1..Len(s) :
                      /\ s[i] = Fence
                      /\ FenceOpen(s, i) <= Len(s)
                      /\ s[FenceOpen(s, i)] = "{"
                      /\ FenceClose(s, FenceOpen(s, i)) # {}}
        j == FenceOpen(s, Least(starts))
    IN  IF starts = {} THEN NoMatch
        ELSE [found |-> TRUE, groups |-> 1,
              text |-> SubSeq(s, j, Least(FenceClose(s, j)))]

\* re.search with the brace pattern: the leftmost "{" that a "}" follows, up
\* to the first such "}".  The pattern has no group: only group(0) exists.
brace_search(s) ==
    LET starts == {j \in 1..Len(s) :
                      s[j] = "{" /\ \E k \in (j + 1)..Len(s) : s[k] = "}"}
        j == Least(starts)
    IN  IF starts = {} THEN NoMatch
        ELSE [found |-> TRUE, groups |-> 0,
              text |-> SubSeq(s, j, Least({k \in (j + 1)..Len(s) : s[k] = "}"}))]

\* re.sub of every run of white space by one blank.
RECURSIVE re_sub(_)
re_sub(s) ==
    IF s = << >> THEN << >>
    ELSE IF IsWs(Head(s))
         THEN <<" ">> \o re_sub(SubSeq(s, SkipWs(s, 1), Len(s)))
    ELSE <<Head(s)>> \o re_sub(Tail(s))

\* What extract_json_from_response gives: (obj, None), (None, error), or an
\* exception that leaves the function.
Extracted(v) ==
    [raised |-> "", found |-> TRUE, kind |-> v.kind, dict |-> v.dict,
     error |-> ""]

ExtractError(text) ==
    [raised |-> "", found |-> FALSE, kind |-> "none", dict |-> << >>,
     error |-> text]

ExtractRaised(e) ==
    [raised |-> e, found |-> FALSE, kind |-> "none", dict |-> << >>,
     error |-> ""]

\* group(1) is taken whenever the response holds a fence, group(0)
\* otherwise; group(1) of a match of the brace pattern is an IndexError,
\* which the except clause of the function (JSONDecodeError) does not catch.
extract_json_from_response(resp) ==
    LET fenced == fenced_search(resp)
        json_match == IF fenced.found THEN fenced ELSE brace_search(resp)
        has_fence == \E i \in 1..Len(resp) : resp[i] = Fence
    IN  IF loads(resp).ok THEN Extracted(loads(resp))
        ELSE IF ~json_match.found
             THEN ExtractError("No valid JSON object found in response: "
                                 \o Str(resp))
        ELSE IF has_fence /\ json_match.groups = 0
             THEN ExtractRaised("IndexError")
        ELSE IF loads(re_sub(json_match.text)).ok
             THEN Extracted(loads(re_sub(json_match.text)))
        ELSE ExtractError("Failed to parse extracted JSON: " \o Str(resp))

----------------------------------------------------------------------------
(* AITrigger.check, AITrigger.watch and the one-shot run of cli.py *)

Prose == <<"I cannot answer">>

Object(members) == <<"{">> \o members \o <<"}">>

\* A fenced block whose opening fence carries the tag json.
Fenced(object) == <<Fence, "json", "\n">> \o object \o <<"\n", Fence>>

\* The pieces a response is made of.
Chunks ==
    {Prose, <<Fence>>, <<"{">>, <<"}">>, <<"1">>,
     Object(<<"\"trigger\": true">>),
     Object(<<"\"trigger\": false", ",", " ", "\"reason\": \"ok\"">>),
     Object(<<"\"trigger\": \"false\"">>),
     Object(<<"\"trigger\": 1">>),
     Object(<<"\"reason\": \"ok\"">>),
     Object(<<"oops">>),
     Object(<<"\"trigger\": true", ",">>),
     Fenced(Object(<<"\"trigger\": true">>)),
     Fenced(Object(<<"oops">>))}

RECURSIVE TextsOf(_)
TextsOf(n) ==
    IF n = 0 THEN {<< >>}
    ELSE TextsOf(n - 1) \cup {t \o c : t \in TextsOf(n - 1), c \in Chunks}

\* What self.model.ainvoke gives on one call: a text, or an exception.
Outcomes ==
    {[raised |-> "", text |-> t] : t \in TextsOf(MaxChunks)}
        \cup {[raised |-> "ModelInvocationError", text |-> << >>]}

\* A Python str as a JSON value, and the values Python takes as false.
Quote(str) == "\"" \o str \o "\""

Truthy(v) == v \notin {"false", "0", "\"\"", "null"}

\* ctx.data.get("trigger", False)
TriggerOf(data) == IF "trigger" \in DOMAIN data THEN data["trigger"] ELSE "false"

\* An except clause naming only json.JSONDecodeError.
except_JSONDecodeError(e) == e = "JSONDecodeError"

\* "except Exception": every exception but the BaseExceptions, of which a
\* task meets CancelledError.
except_Exception(e) == e # "CancelledError"

\* TriggerContext(trigger_name=self.name, data={"trigger": False, "reason": ...})
NotFiring(reason) ==
    [raised |-> "",
     data |-> ("trigger" :> "false" @@ "reason" :> Quote(reason))]

\* The except clause of check: a context if it catches e, else e goes on.
CheckFailed(e) ==
    IF except_Exception(e) THEN NotFiring("Error checking AI trigger: " \o e)
    ELSE [raised |-> e, data |-> << >>]

\* AITrigger.check for one outcome of the model call.
check(outcome) ==
    LET r == extract_json_from_response(outcome.text)
    IN  IF outcome.raised # "" THEN CheckFailed(outcome.raised)
        ELSE IF r.raised # "" THEN CheckFailed(r.raised)
        ELSE IF r.error # ""
             THEN NotFiring("Error parsing response: " \o r.error)
        ELSE IF r.kind # "dict" \/ "trigger" \notin DOMAIN r.dict
             THEN NotFiring("Model response is not a valid JSON or missing 'trigger' field")
        ELSE [raised |-> "", data |-> r.dict]

\* The extraction check made, if the model call returned.
ExtractionOf(outcome) ==
    IF outcome.raised # "" THEN ExtractRaised("")
    ELSE extract_json_from_response(outcome.text)

\* How a tick went, for the next tick to remember.
KindOf(outcome, fired) ==
    IF outcome.raised # "" \/ ~ExtractionOf(outcome).found THEN "failed"
    ELSE IF fired THEN "fired" ELSE "quiet"

\* What check hands its caller: each return statement of AITrigger.check
\* builds a TriggerContext, whatever the decision was.
ContextOf(r) == IF r.raised = "" THEN "TriggerContext" ELSE "raised"

\* The AITrigger before watch or a one-shot run has started.
AiStart ==
    [pc |-> "start", response |-> [raised |-> "", text |-> << >>],
     extracted |-> ExtractRaised(""), data |-> << >>, fired |-> FALSE,
     prev |-> "none", ctx |-> "none"]

\* watch: the loop calls check, which awaits the model.
Invoke ==
    /\ ai.pc \in {"start", "sleeping"}
    /\ ai' = [AiStart EXCEPT !.pc = "invoking",
                             !.prev = IF ai.pc = "start" THEN "none"
                                      ELSE KindOf(ai.response, ai.fired)]
    /\ UNCHANGED <<runtime_vars, registry, call, worker, folder>>

\* watch: the model call ends, check returns its context (or raises),
\* queue_put is awaited if the trigger value is true for Python, an
\* exception the loop catches is logged, and the loop sleeps.
ModelReturns(outcome) ==
    LET ctx == check(outcome)
    IN  /\ ai.pc = "invoking"
        /\ ai' = [ai EXCEPT
                    !.pc = IF ctx.raised = "" \/ except_Exception(ctx.raised)
                           THEN "sleeping" ELSE "dead",
                    !.response = outcome,
                    !.extracted = ExtractionOf(outcome),
                    !.data = ctx.data,
                    !.ctx = ContextOf(ctx),
                    !.fired = ctx.raised = "" /\ Truthy(TriggerOf(ctx.data))]
        /\ UNCHANGED <<runtime_vars, registry, call, worker, folder>>

\* task.cancel() while the loop awaits the model or sleeps.
CancelWatch ==
    /\ ai.pc \in {"invoking", "sleeping"}
    /\ ai' = [ai EXCEPT !.pc = "cancelled"]
    /\ UNCHANGED <<runtime_vars, registry, call, worker, folder>>

\* _execute_ta_once: one check, and ta.execute_action if the trigger value
\* is true for Python.
RunOnce(outcome) ==
    LET ctx == check(outcome)
    IN  /\ ai.pc = "start"
        /\ ai' = [ai EXCEPT
                    !.pc = "once",
                    !.response = outcome,
                    !.extracted = ExtractionOf(outcome),
                    !.data = ctx.data,
                    !.ctx = ContextOf(ctx),
                    !.fired = ctx.raised = "" /\ Truthy(TriggerOf(ctx.data))]
        /\ UNCHANGED <<runtime_vars, registry, call, worker, folder>>

InitAi ==
    /\ NoRuntime
    /\ registry = Imported
    /\ call = NoCall
    /\ worker = NoTask
    /\ folder = NoFolder
    /\ ai = AiStart

NextAi ==
    \/ Invoke
    \/ \E outcome \in Outcomes : ModelReturns(outcome)
    \/ CancelWatch
    \/ \E outcome \in Outcomes : RunOnce(outcome)

AiSpec == InitAi /\ [][NextAi]_vars

----------------------------------------------------------------------------
(* registry.py on its own: registrations and look-ups in any order *)

Categories == {"trigger", "action"}

\* Names passed to the decorators and classes they decorate.
RegNames == {"cron", "custom"}

Classes == {"CronTrigger", "MyTrigger"}

\* @register_trigger(name) / @register_action(name) applied to cls.
Register(category, name, cls) ==
    /\ registry' = register(registry, category, name, cls)
    /\ call' = [op |-> "register", category |-> category, name |-> name,
                cls |-> cls, raised |-> FALSE]
    /\ UNCHANGED <<runtime_vars, ai, worker, folder>>

\* get_trigger(name) / get_action(name).
Resolve(category, name) ==
    LET r == get(registry, category, name)
    IN  /\ call' = [op |-> "get", category |-> category, name |-> name,
                    cls |-> r.cls, raised |-> r.raised]
        /\ UNCHANGED <<runtime_vars, registry, ai, worker, folder>>

InitRegistry == NoRuntime /\ OthersIdle

NextRegistry ==
    \/ \E c \in Categories, n \in RegNames, k \in Classes : Register(c, n, k)
    \/ \E c \in Categories, n \in RegNames : Resolve(c, n)

RegistrySpec == InitRegistry /\ [][NextRegistry]_vars

\* C16: a registration under (category, name) makes that name resolve to the
\* class just registered, whatever was registered under it before, leaves
\* every other name's resolution as it was, and a look-up changes nothing;
\* so a name always resolves to the class most recently registered under it.
C16_LastRegistrationWins ==
    [][/\ call'.op = "register" =>
            /\ get(registry', call'.category, call'.name)
                 = [raised |-> FALSE, cls |-> call'.cls]
            /\ \A c \in Categories, n \in RegNames \cup {"ai", "shell"} :
                   <<c, n>> # <<call'.category, call'.name>>
                       => get(registry', c, n) = get(registry, c, n)
       /\ call'.op = "get" =>
            /\ registry' = registry
            /\ <<call'.cls, call'.raised>>
                 = <<get(registry, call'.category, call'.name).cls,
                     get(registry, call'.category, call'.name).raised>>]_vars

\* "cron" was registered as CronTrigger at import, then as MyTrigger, and
\* the look-up that followed answered MyTrigger.
C16_Witness ==
    /\ Imported.trigger["cron"] = "CronTrigger"
    /\ call = [op |-> "get", category |-> "trigger", name |-> "cron",
               cls |-> "MyTrigger", raised |-> FALSE]
    /\ registry.trigger["cron"] = "MyTrigger"
    /\ registry.action = Imported.action

----------------------------------------------------------------------------
(* Configuration validation: core.py, and the classes of the two test files *)

\* A JSON value of a config: its type and its text.
IntValue(t) == [type |-> "int", text |-> t]

StrValue(t) == [type |-> "str", text |-> t]

Values == {IntValue("60"), StrValue("60"), StrValue("x")}

\* Texts pydantic's lax mode reads as an integer.
NumericTexts == {"60"}

\* Every dict over the keys F.
Configs(F) == UNION {[S -> Values] : S \in SUBSET F}

Field(name, type, required) ==
    [name |-> name, type |-> type, required |-> required]

\* BaseConfig: name has the default "".
BaseConfig == {Field("name", "str", FALSE)}

\* The pydantic model a class validates with.  StrictTestTrigger is
\* TestTrigger of tests/test_validation.py, TestTrigger the one of
\* triggered/test_trigger.py; no built-in trigger sets config_model.
config_model(cls) ==
    CASE cls = "TestTrigger" ->
             BaseConfig \cup {Field("interval", "int", TRUE),
                              Field("max_retries", "int", FALSE)}
      [] cls = "StrictTestTrigger" ->
             BaseConfig \cup {Field("interval", "StrictInt", TRUE),
                              Field("max_retries", "StrictInt", FALSE)}
      [] cls = "ShellCommandAction" ->
             BaseConfig \cup {Field("command", "str", TRUE)}
      [] OTHER -> BaseConfig

\* get_config_schema of a class, cut down to the fields of the model.
get_config_schema(cls) ==
    CASE cls = "CronTrigger" ->
             {Field("name", "string", TRUE), Field("expression", "string", TRUE)}
      [] cls = "AITrigger" ->
             {Field("name", "string", TRUE), Field("interval", "integer", TRUE)}
      [] cls = "ShellCommandAction" ->
             {Field("command", "string", TRUE)}
      [] OTHER -> {Field("name", "string", FALSE)}

\* pydantic: does a field of this type take the value?  Lax mode turns a
\* numeric string into an int; a strict int and a str take only their own.
Accepts(type, v) ==
    CASE type = "str" -> v.type = "str"
      [] type = "int" ->
             v.type = "int" \/ (v.type = "str" /\ v.text \in NumericTexts)
      [] type = "StrictInt" -> v.type = "int"

\* The fields the ValidationError lists: missing, or of a type not taken.
\* Keys the model does not declare are ignored.
Rejected(model, config) ==
    {f.name : f \in {g \in model :
         IF g.name \in DOMAIN config THEN ~Accepts(g.type, config[g.name])
         ELSE g.required}}

\* Trigger.validate_config / Action.validate_config: (True, None), or False
\* and str(e); of the message the model keeps the fields it names.
validate_config(cls, config) ==
    LET bad == Rejected(config_model(cls), config)
    IN  [raised |-> FALSE, ok |-> bad = {}, stage |-> "none", fields |-> bad]

\* TriggerDefinition.validate / ActionDefinition.validate: get_trigger and
\* get_action raise for an unknown type, so the "if not cls" lines are dead.
DefinitionValidate(reg, category, d) ==
    LET r == get(reg, category, d.type)
    IN  IF r.raised
        THEN [raised |-> TRUE, ok |-> FALSE, stage |-> category, fields |-> {}]
        ELSE [validate_config(r.cls, d.config) EXCEPT !.stage = category]

Valid == [raised |-> FALSE, ok |-> TRUE, stage |-> "none", fields |-> {}]

\* TriggerAction.validate with the two halves in the other order.
validate_action_first(reg, ta) ==
    LET a == DefinitionValidate(reg, "action", ta.action)
        t == DefinitionValidate(reg, "trigger", ta.trigger)
    IN  IF ~a.ok THEN a ELSE IF ~t.ok THEN t ELSE Valid

\* TriggerAction.validate: "Invalid trigger configuration: ..." first, then
\* "Invalid action configuration: ...", else (True, None).
validate(reg, ta) ==
    LET t == DefinitionValidate(reg, "trigger", ta.trigger)
        a == DefinitionValidate(reg, "action", ta.action)
    IN  IF ~t.ok THEN t ELSE IF ~a.ok THEN a ELSE Valid

ValidatedClasses ==
    {"CronTrigger", "AITrigger", "TestTrigger", "StrictTestTrigger",
     "ShellCommandAction"}

ConfigFields == {"name", "interval", "max_retries", "expression", "command"}

\* The bindings validate is called on.
Bindings ==
    [trigger : [type : {"cron", "ai", "nosuch"},
                config : Configs({"name", "expression"})],
     action : [type : {"shell", "nosuch"},
               config : Configs({"name", "command"})]]

NoBinding ==
    [trigger |-> [type |-> "nosuch", config |-> << >>],
     action |-> [type |-> "nosuch", config |-> << >>]]

\* cls.validate_config(config), up to MaxCalls times
ValidateConfig ==
    /\ call.op = "validate_config" /\ call.calls < MaxCalls
    /\ call' = [call EXCEPT !.calls = @ + 1,
                            !.result = validate_config(call.cls, call.config)]
    /\ UNCHANGED <<runtime_vars, registry, ai, worker, folder>>

\* ta.validate(), up to MaxCalls times
Validate ==
    /\ call.op = "validate" /\ call.calls < MaxCalls
    /\ call' = [call EXCEPT !.calls = @ + 1,
                            !.result = validate(registry, call.ta)]
    /\ UNCHANGED <<runtime_vars, registry, ai, worker, folder>>

\* One call is about to be made, on any class and config or on any binding.
InitValidation ==
    /\ NoRuntime
    /\ registry = Imported
    /\ ai = AiIdle
    /\ worker = NoTask
    /\ folder = NoFolder
    /\ \/ \E cls \in ValidatedClasses, config \in Configs(ConfigFields) :
            call = [op |-> "validate_config", cls |-> cls, config |-> config,
                    ta |-> NoBinding, calls |-> 0, result |-> Valid]
       \/ \E ta \in Bindings :
            call = [op |-> "validate", cls |-> "TriggerAction",
                    config |-> << >>, ta |-> ta, calls |-> 0,
                    result |-> Valid]

NextValidation == ValidateConfig \/ Validate

ValidationSpec == InitValidation /\ [][NextValidation]_vars

\* What a class declares of a field: by its pydantic model or by its schema.
Declared(cls) == config_model(cls) \cup get_config_schema(cls)

RequiredFields(cls) == {f.name : f \in {g \in Declared(cls) : g.required}}

IntegerFields(cls) ==
    {f.name : f \in {g \in Declared(cls) :
                        g.type \in {"int", "StrictInt", "integer"}}}

\* Every supplied field the class declares has a value of the declared type.
WellTyped(cls, config) ==
    \A n \in DOMAIN config :
        /\ n \in IntegerFields(cls) => config[n].type = "int"
        /\ n \in {f.name : f \in Declared(cls)} \ IntegerFields(cls)
               => config[n].type = "str"

\* The call under observation has returned (or raised) at least once.
Returned(op) == call.op = op /\ call.calls > 0

----------------------------------------------------------------------------
(* TriggerAction.execute_action and the Celery task of queue.py *)

\* max_retries of the task decorator.
max_retries == 3

\* What action.execute(ctx) does in one run: it returns a value (a JSON
\* value that is true for Python, None, or an object json.dumps cannot
\* serialise), or it raises an Exception with a message, which may be empty.
Returns(v) == [raised |-> FALSE, value |-> v, message |-> ""]

Raises(m) == [raised |-> TRUE, value |-> "", message |-> m]

ActionOutcomes ==
    {Returns("{\"ok\": 1}"), Returns("None"), Returns("<object>"),
     Raises("boom"), Raises("")}

\* log_action_result(action_name, result, error): "if error" takes the
\* empty message for no error.
log_action_result(error) == IF error # "" THEN "failure" ELSE "success"

\* log_result_details(result): json.dumps of a result that is true for
\* Python; the TypeError message if it cannot be serialised, else "".
log_result_details(result) ==
    IF result = "<object>" THEN "Object is not JSON serializable" ELSE ""

\* TriggerAction.execute_action: the reports it makes, whether it raises to
\* its caller, and the value it returns.
execute_action(outcome) ==
    IF outcome.raised
    THEN [reports |-> <<"start", log_action_result(outcome.message)>>,
          raised |-> TRUE, value |-> ""]
    ELSE IF log_result_details(outcome.value) # ""
         THEN [reports |-> <<"start", log_action_result(""),
                            log_action_result(log_result_details(outcome.value))>>,
               raised |-> TRUE, value |-> ""]
    ELSE [reports |-> <<"start", log_action_result("")>>,
          raised |-> FALSE, value |-> outcome.value]

RECURSIVE Pow2(_)
Pow2(n) == IF n = 0 THEN 1 ELSE 2 * Pow2(n - 1)

\* retry_in, the countdown of self.retry.
retry_in_linear(retries) == retries + 1

retry_in(retries) == Pow2(retries)

\* self.retry(exc=e, countdown=retry_in): Celery schedules the task again
\* unless request.retries + 1 exceeds max_retries, and then raises exc.
retry(w) ==
    IF w.retries + 1 > max_retries
    THEN [w EXCEPT !.state = "FAILURE"]
    ELSE [w EXCEPT !.state = "RETRY",
                   !.retries = @ + 1,
                   !.countdowns = Append(@, retry_in(w.retries))]

\* The task as apply_async leaves it on the task queue.
Submitted ==
    [state |-> "PENDING", retries |-> 0, countdowns |-> << >>, runs |-> << >>]

\* One run of the task body by the worker.
RunTask(outcome) ==
    LET r == execute_action(outcome)
        w == [worker EXCEPT
                !.runs = Append(@, [outcome |-> outcome, reports |-> r.reports,
                                    raised |-> r.raised, value |-> r.value])]
    IN  /\ worker.state \in {"PENDING", "RETRY"}
        /\ worker' = IF r.raised THEN retry(w) ELSE [w EXCEPT !.state = "SUCCESS"]
        /\ UNCHANGED <<runtime_vars, registry, ai, call, folder>>

InitWorker ==
    /\ NoRuntime
    /\ registry = Imported
    /\ ai = AiIdle
    /\ call = NoCall
    /\ folder = NoFolder
    /\ worker = Submitted

NextWorker == \E outcome \in ActionOutcomes : RunTask(outcome)

WorkerSpec == InitWorker /\ [][NextWorker]_vars

\* The worker runs a task that is waiting (after its countdown).
WorkerLiveSpec == WorkerSpec /\ WF_vars(NextWorker)

----------------------------------------------------------------------------
(* The management handlers of server.py other than create_trigger *)

\* The auth values callers present, and the ids they address.
Auths == {"k", "x"}

\* TriggerAction.model_validate(body) in update_trigger: a body without an
\* id gets a fresh uuid4, and filename stays None (written "").
new_ta(body) ==
    TriggerAction([body EXCEPT !.id = IF @ = "" THEN "uuid4" ELSE @], "")

UpdateBodies ==
    {Definition("a", "cron", 1), Definition("b", "cron", 1),
     [Definition("a", "nosuch", 1) EXCEPT !.auth_key = "k2"],
     Definition("", "cron", 1), Malformed}

\* "if ta.auth_key != auth: raise HTTPException(403)".
auth_any(ta, auth) == TRUE

auth_ok(ta, auth) == ta.auth_key = auth

\* The scan every handler starts with: the index of the first binding of the
\* live set with the id, and the answer the scan leads to.
Find(tas, id) ==
    IF \E i \in DOMAIN tas : tas[i].id = id
    THEN Least({i \in DOMAIN tas : tas[i].id = id})
    ELSE 0

Scan(tas, id, auth) ==
    LET i == Find(tas, id)
    IN  [i |-> i,
         status |-> IF i = 0 THEN 404
                    ELSE IF ~auth_ok(tas[i], auth) THEN 403 ELSE 200]

\* An answer, with the call it answers: the bindings it shows (body) and
\* the request body the caller sent (update only).
Answer(op, status, id, auth, body) ==
    [op |-> op, status |-> status, id |-> id, auth |-> auth, body |-> body,
     sent |-> << >>]

\* "if new_ta.id != trigger_id: raise HTTPException(400)".
id_mismatch_never(ta, trigger_id) == FALSE

id_mismatch(ta, trigger_id) == ta.id # trigger_id

\* list.pop(i), and Path.unlink of a name.
Pop(seq, i) == SubSeq(seq, 1, i - 1) \o SubSeq(seq, i + 1, Len(seq))

Unlink(dir, name) == [f \in DOMAIN dir \ {name} |-> dir[f]]

\* TriggerContext(**fields): pydantic raises ValidationError when the
\* required field trigger_name is not given.
TriggerContext(fields) ==
    [raised |-> "trigger_name" \notin fields, fields |-> fields]

get_trigger_info(trigger_id, auth) ==
    LET s == Scan(trigger_actions, trigger_id, auth)
    IN  /\ phase = "running"
        /\ response' = Answer("get", s.status, trigger_id, auth,
                              IF s.status = 200 THEN <<trigger_actions[s.i]>>
                              ELSE << >>)
        /\ UNCHANGED <<files, examples, hooks, trigger_actions, _watcher_tasks, _queue,
                       RECENT_EVENTS, attempts, emitted, now, phase, dispatcher,
                       adds, cancel_mark>>
        /\ UNCHANGED other_vars

list_triggers ==
    /\ phase = "running"
    /\ response' = Answer("list", 200, "", "", trigger_actions)
    /\ UNCHANGED <<files, examples, hooks, trigger_actions, _watcher_tasks, _queue,
                   RECENT_EVENTS, attempts, emitted, now, phase, dispatcher,
                   adds, cancel_mark>>
    /\ UNCHANGED other_vars

delete_trigger(trigger_id, auth) ==
    LET s == Scan(trigger_actions, trigger_id, auth)
    IN  /\ phase = "running"
        /\ response' = Answer("delete", s.status, trigger_id, auth, << >>)
        /\ IF s.status = 200
           THEN LET ta == trigger_actions[s.i]
                IN  /\ files' = IF ta.filename # "" /\ ta.filename \in DOMAIN files
                                THEN Unlink(files, ta.filename)
                                ELSE files
                    /\ trigger_actions' = Pop(trigger_actions, s.i)
           ELSE UNCHANGED <<files, trigger_actions>>
        /\ UNCHANGED <<examples, hooks, _watcher_tasks, _queue, RECENT_EVENTS, attempts,
                       emitted, now, phase, dispatcher, adds, cancel_mark>>
        /\ UNCHANGED other_vars

update_trigger(trigger_id, auth, body) ==
    LET s == Scan(trigger_actions, trigger_id, auth)
        ta == new_ta(body)
        status == IF s.status # 200 THEN s.status
                  ELSE IF ~body.valid THEN 400
                  ELSE IF id_mismatch(ta, trigger_id) THEN 400
                  ELSE 200
    IN  /\ phase = "running"
        /\ response' = [Answer("update", status, trigger_id, auth,
                               IF status = 200 THEN <<ta>> ELSE << >>)
                          EXCEPT !.sent = body]
        /\ IF status = 200
           THEN /\ files' = (FileName(ta.id) :> Dump(ta)) @@ files
                /\ trigger_actions' =
                       [trigger_actions EXCEPT ![Find(trigger_actions, trigger_id)] = ta]
           ELSE UNCHANGED <<files, trigger_actions>>
        /\ UNCHANGED <<examples, hooks, _watcher_tasks, _queue, RECENT_EVENTS, attempts,
                       emitted, now, phase, dispatcher, adds, cancel_mark>>
        /\ UNCHANGED other_vars

\* The context is built before the try block, so its ValidationError is
\* answered 500 by the framework and apply_async is not reached.  Status 200
\* stands for the answer {"status": "scheduled", ...}.
run_trigger(trigger_id, auth) ==
    LET s == Scan(trigger_actions, trigger_id, auth)
        ctx == TriggerContext({"fired_at", "data"})
        status == IF s.status # 200 THEN s.status
                  ELSE IF ctx.raised THEN 500 ELSE 200
    IN  /\ phase = "running"
        /\ response' = Answer("run", status, trigger_id, auth, << >>)
        /\ worker' = IF status = 200 THEN Submitted ELSE worker
        /\ UNCHANGED <<files, examples, hooks, trigger_actions, _watcher_tasks, _queue,
                       RECENT_EVENTS, attempts, emitted, now, phase, dispatcher,
                       adds, cancel_mark>>
        /\ UNCHANGED <<registry, ai, call, folder>>

NextManage ==
    \/ Start
    \/ \E body \in Bodies : CreateTrigger(body)
    \/ \E id \in Ids, auth \in Auths : get_trigger_info(id, auth)
    \/ list_triggers
    \/ \E id \in Ids, auth \in Auths : delete_trigger(id, auth)
    \/ \E id \in Ids, auth \in Auths, body \in UpdateBodies :
           update_trigger(id, auth, body)
    \/ \E id \in Ids, auth \in Auths : run_trigger(id, auth)

\* The management API over a started scheduler.
ManageSpec == Init /\ [][NextManage]_vars

\* The scheduler at work while the holder of the key updates and deletes
\* bindings: watchers fire and the dispatcher submits between the calls.
LifeBodies == {Definition("a", "cron", 1), Definition("b", "cron", 1)}

NextLife ==
    \/ Start
    \/ \E i \in DOMAIN _watcher_tasks : WatcherFire(i)
    \/ Dispatch
    \/ \E id \in Ids : delete_trigger(id, "k")
    \/ \E id \in Ids, body \in LifeBodies : update_trigger(id, "k", body)

LifeSpec == Init /\ [][NextLife]_vars

----------------------------------------------------------------------------
(* FolderMonitorTrigger *)

\* The files that may be in the watched folder, their modification times,
\* and the values of the "events" key of the configs.
Paths == {"f1", "f2"}

Mtimes == {"t1", "t2"}

Folders == UNION {[S -> Mtimes] : S \in SUBSET Paths}

EventConfigs == {{"created", "modified", "deleted"}, {"created"}, {"deleted"}}

\* The (filepath, event) pairs watch appends to changed_files.
changed_files(old, new) ==
    {[filepath |-> f, event |-> "created"] : f \in DOMAIN new \ DOMAIN old}
    \cup {[filepath |-> f, event |-> "modified"] :
              f \in {g \in DOMAIN new \cap DOMAIN old : old[g] # new[g]}}
    \cup {[filepath |-> f, event |-> "deleted"] : f \in DOMAIN old \ DOMAIN new}

\* TriggerContext(trigger_name=self.name, data={...}) of one change, and
\* TriggerContext(trigger_name=self.name), whose data is the empty dict.
ChangeContext(c) == [data |-> c]

PlainContext == [data |-> << >>]

\* __init__ takes the first snapshot; watch has not polled yet.
FolderStart(fs, events) ==
    [pc |-> "watching", fs |-> fs, events |-> events, _snapshot |-> fs,
     before |-> fs, put |-> {}]

\* A file is written (created, or modified with a new mtime) or removed.
WriteFile(f, t) ==
    /\ folder.pc # "none"
    /\ ~(f \in DOMAIN folder.fs /\ folder.fs[f] = t)
    /\ folder' = [folder EXCEPT !.fs = (f :> t) @@ @]
    /\ UNCHANGED <<runtime_vars, registry, ai, call, worker>>

RemoveFile(f) ==
    /\ folder.pc # "none"
    /\ f \in DOMAIN folder.fs
    /\ folder' = [folder EXCEPT !.fs = [g \in DOMAIN @ \ {f} |-> @[g]]]
    /\ UNCHANGED <<runtime_vars, registry, ai, call, worker>>

\* One turn of the loop of watch after its sleep: before is the snapshot
\* the turn started with, put the contexts it handed to queue_put.
Poll ==
    LET new_snapshot == folder.fs
        differs == new_snapshot # folder._snapshot
        changed == IF differs THEN changed_files(folder._snapshot, new_snapshot)
                   ELSE {}
    IN  /\ folder.pc # "none"
        /\ folder' = [folder EXCEPT
                        !.pc = "polled",
                        !.before = folder._snapshot,
                        !._snapshot = IF differs THEN new_snapshot ELSE @,
                        !.put = {ChangeContext(c) :
                                    c \in {d \in changed : d.event \in folder.events}}
                                \cup {PlainContext}]
        /\ UNCHANGED <<runtime_vars, registry, ai, call, worker>>

InitFolder ==
    /\ NoRuntime
    /\ registry = Imported
    /\ ai = AiIdle
    /\ call = NoCall
    /\ worker = NoTask
    /\ \E fs \in Folders, events \in EventConfigs : folder = FolderStart(fs, events)

NextFolder ==
    \/ \E f \in Paths, t \in Mtimes : WriteFile(f, t)
    \/ \E f \in Paths : RemoveFile(f)
    \/ Poll

FolderSpec == InitFolder /\ [][NextFolder]_vars

----------------------------------------------------------------------------
(* Properties of validation *)

\* C17: validate_config answers (True, None) for every config that supplies
\* all required fields with values of the declared types, and (False, a
\* message naming the field) for every config that omits a required field.
C17_RequiredFieldsEnforced ==
    Returned("validate_config") =>
        /\ (RequiredFields(call.cls) \subseteq DOMAIN call.config
              /\ WellTyped(call.cls, call.config))
               => call.result = Valid
        /\ \A n \in RequiredFields(call.cls) \ DOMAIN call.config :
               ~call.result.ok /\ n \in call.result.fields

\* C18: a config giving a string for a field its class declares integer is
\* rejected by validate_config with a message that mentions the field.
C18_NoStringForInteger ==
    Returned("validate_config") =>
        \A n \in IntegerFields(call.cls) \cap DOMAIN call.config :
            call.config[n].type = "str"
                => ~call.result.ok /\ n \in call.result.fields

\* The class a definition's type resolves to ("ValueError" if it does not).
ClassOf(category, d) == get(registry, category, d.type).cls

\* The definition's config omits a field its type's schema marks required.
OmitsRequired(category, d) ==
    /\ ~get(registry, category, d.type).raised
    /\ \E f \in get_config_schema(ClassOf(category, d)) :
           f.required /\ f.name \notin DOMAIN d.config

\* C19: TriggerAction.validate() rejects, with (False, error), every binding
\* of registered types whose trigger config or action config omits a field
\* that the type's get_config_schema marks as required.
C19_SchemaRequiredEnforced ==
    (/\ Returned("validate")
     /\ ~get(registry, "trigger", call.ta.trigger.type).raised
     /\ ~get(registry, "action", call.ta.action.type).raised
     /\ OmitsRequired("trigger", call.ta.trigger)
          \/ OmitsRequired("action", call.ta.action))
        => ~call.result.raised /\ ~call.result.ok

\* A half of the binding that does not validate: its type is unknown or its
\* config is rejected by the type's model.
Bad(category, d) == ~DefinitionValidate(registry, category, d).ok

\* C20: TriggerAction.validate() looks at the trigger before the action and
\* answers with the first error (the trigger's when both halves are bad, the
\* action's only when the trigger is good, (True, None) when both are good);
\* a call changes neither the binding nor the registry, and a second call
\* gives the result of the first.
C20_TriggerFirstAndPure ==
    /\ [](Returned("validate") =>
            /\ Bad("trigger", call.ta.trigger)
                 => call.result
                      = DefinitionValidate(registry, "trigger", call.ta.trigger)
            /\ (~Bad("trigger", call.ta.trigger) /\ Bad("action", call.ta.action))
                 => call.result
                      = DefinitionValidate(registry, "action", call.ta.action)
            /\ (~Bad("trigger", call.ta.trigger) /\ ~Bad("action", call.ta.action))
                 => call.result = Valid)
    /\ [][call.op = "validate" =>
            /\ call'.ta = call.ta
            /\ registry' = registry
            /\ call.calls > 0 => call'.result = call.result]_vars

\* validate() was called twice on a binding of a cron trigger whose name is
\* not a string and a shell action without a command, and answered with the
\* trigger's error.
C20_Witness ==
    /\ call.op = "validate" /\ call.calls = MaxCalls
    /\ call.ta.trigger = [type |-> "cron", config |-> ("name" :> IntValue("60"))]
    /\ call.ta.action = [type |-> "shell", config |-> << >>]
    /\ call.result = [raised |-> FALSE, ok |-> FALSE, stage |-> "trigger",
                      fields |-> {"name"}]

----------------------------------------------------------------------------
(* Properties of the AI trigger *)

\* An evaluation has ended: a tick of the watch loop or a one-shot run.
Evaluated == ai.pc \in {"sleeping", "once"}

\* The model call of the evaluation returned a text.
Answered == Evaluated /\ ai.response.raised = ""

\* C11: the AI trigger fires (queue_put in the watch loop, execute_action in
\* the one-shot run) iff the decision's trigger field is the boolean true;
\* a string, a number or any other value does not fire.
C11_StrictBooleanFires ==
    Evaluated => (ai.fired <=> TriggerOf(ai.data) = "true")

\* C12: extract_json_from_response returns normally for every response text,
\* and for a text holding no parseable JSON the decision has trigger false.
C12_ExtractionNeverRaises ==
    Answered =>
        /\ ai.extracted.raised = ""
        /\ ~ai.extracted.found => TriggerOf(ai.data) = "false"

\* The three tiers of extraction, each on its own, and the first success.
WholeTier(t) == loads(t)

FencedTier(t) ==
    IF fenced_search(t).found THEN loads(re_sub(fenced_search(t).text))
    ELSE JSONDecodeError

BraceTier(t) ==
    IF brace_search(t).found THEN loads(re_sub(brace_search(t).text))
    ELSE JSONDecodeError

FirstSuccess(t) ==
    IF WholeTier(t).ok THEN WholeTier(t)
    ELSE IF FencedTier(t).ok THEN FencedTier(t)
    ELSE BraceTier(t)

\* C13: whenever extraction returns, its result is the first success of the
\* tiers whole text, fenced block, first brace-delimited substring, and it
\* reports failure only if all three fail; a fenced block that does not
\* parse does not stop the brace scan.
C13_FirstSuccessWins ==
    (Answered /\ ai.extracted.raised = "") =>
        /\ ai.extracted.found = FirstSuccess(ai.response.text).ok
        /\ ai.extracted.found =>
               /\ ai.extracted.kind = FirstSuccess(ai.response.text).kind
               /\ ai.extracted.dict = FirstSuccess(ai.response.text).dict

\* C14: every evaluation yields a decision with exactly a boolean trigger, a
\* reason string and raw, the model's text; when no JSON can be extracted
\* the decision is trigger false, reason "no valid JSON found", raw the text.
C14_WellFormedDecision ==
    Answered =>
        /\ DOMAIN ai.data = {"trigger", "reason", "raw"}
        /\ ai.data["trigger"] \in {"true", "false"}
        /\ ai.data["raw"] = Quote(Str(ai.response.text))
        /\ ~ai.extracted.found =>
               /\ ai.data["trigger"] = "false"
               /\ ai.data["reason"] = Quote("no valid JSON found")

\* C15: no model output and no failure of the model call ends the watch
\* loop: every tick that is not cancelled ends asleep, with a failure turned
\* into a decision that does not fire; what follows the sleep is the next
\* check; and the loop leaves this cycle only by cancellation.
C15_WatchLoopSurvives ==
    /\ [](/\ ai.pc # "dead"
          /\ (ai.pc = "sleeping" /\ KindOf(ai.response, ai.fired) = "failed")
                => ~ai.fired /\ TriggerOf(ai.data) = "false")
    /\ [][/\ (ai.pc = "invoking" /\ ai'.pc # "cancelled")
                => ai'.pc = "sleeping"
          /\ (ai.pc = "sleeping" /\ ai'.pc # "cancelled")
                => ai'.pc = "invoking"]_vars

\* One tick failed (the model call raised, or its text held no JSON that
\* could be extracted), the loop slept and checked again, and the later check
\* fired.
C15_Witness ==
    /\ ai.pc = "sleeping"
    /\ ai.prev = "failed"
    /\ ai.fired

----------------------------------------------------------------------------
(* Properties of action execution *)

\* C21: every run of the execution helper reports start first and then
\* exactly one outcome: success, with the action's result returned, when the
\* action returned; failure, with the error raised to the caller, when the
\* action raised.
C21_OneOutcomeReported ==
    \A i \in DOMAIN worker.runs :
        LET run == worker.runs[i]
        IN  /\ Len(run.reports) = 2
            /\ run.reports[1] = "start"
            /\ run.outcome.raised
                 => run.reports[2] = "failure" /\ run.raised
            /\ ~run.outcome.raised
                 => /\ run.reports[2] = "success"
                    /\ ~run.raised
                    /\ run.value = run.outcome.value

\* C22: the action body runs at most once for a submitted event, also when
\* it raises.
C22_NoRetry == Len(worker.runs) <= 1

\* C30: a failing run is retried with countdowns 1, 2, 4 and at most three
\* times, so the action runs at most four times; only a failed run is
\* followed by another one; four failures are final; and the task ends, in
\* success or in final failure.
C30_BackoffAndLimit ==
    /\ [](/\ Len(worker.runs) <= 4
          /\ worker.retries <= 3
          /\ worker.countdowns = SubSeq(<<1, 2, 4>>, 1, worker.retries)
          /\ \A i \in DOMAIN worker.runs :
                 i < Len(worker.runs) => worker.runs[i].raised
          /\ worker.state = "SUCCESS"
               <=> (worker.runs # << >>
                      /\ ~worker.runs[Len(worker.runs)].raised)
          /\ worker.state = "FAILURE"
               <=> (Len(worker.runs) = 4
                      /\ worker.runs[Len(worker.runs)].raised))
    /\ [][worker.state \in {"SUCCESS", "FAILURE"} => worker' = worker]_vars
    /\ <>(worker.state \in {"SUCCESS", "FAILURE"})

\* The action failed four times, each retry was scheduled with the doubled
\* countdown, and the task is in its final failure.
C30_Witness ==
    /\ worker.state = "FAILURE"
    /\ Len(worker.runs) = 4
    /\ worker.countdowns = <<1, 2, 4>>

----------------------------------------------------------------------------
(* Properties of the one-shot check *)

\* C23: check returns a context exactly when the trigger fired, and nothing
\* when it did not fire: also when the AI decision is trigger = false and
\* when extraction failed.
C23_ContextIffFired ==
    ai.pc \in {"once", "sleeping"}
        => (ai.ctx = "TriggerContext" <=> ai.fired)

----------------------------------------------------------------------------
(* Properties of the management handlers *)

Guarded == {"get", "update", "delete", "run"}

IdSeq(tas) == [i \in DOMAIN tas |-> tas[i].id]

\* C24: get, update, delete and run with an auth value that is not the
\* auth_key of the addressed binding (the first of the live set with the id)
\* are answered 403, on an id that is not in the live set 404, and in both
\* cases the live set, the files, the watchers, the event queue and the task
\* queue stay as they were.
C24_RejectedCallsChangeNothing ==
    [][response'.op \in Guarded =>
         LET i == Find(trigger_actions, response'.id)
         IN  /\ i = 0 =>
                  /\ response'.status = 404
                  /\ UNCHANGED <<files, trigger_actions, _watcher_tasks,
                                 _queue, worker>>
             /\ (i # 0 /\ trigger_actions[i].auth_key # response'.auth) =>
                  /\ response'.status = 403
                  /\ UNCHANGED <<files, trigger_actions, _watcher_tasks,
                                 _queue, worker>>]_vars

\* A delete with a wrong key was answered 403 and the binding is still live.
C24_Witness ==
    /\ response.op = "delete"
    /\ response.status = 403
    /\ Find(trigger_actions, response.id) # 0
    /\ trigger_actions[Find(trigger_actions, response.id)].auth_key # response.auth

\* C25: no answer other than the creation answer shows a binding (its
\* auth_key and configuration) to a caller who did not present that
\* binding's auth_key; an update shows the caller the binding they sent.
C25_NoDisclosure ==
    response.op \in Guarded \cup {"list"} =>
        \A i \in DOMAIN response.body :
            \/ response.body[i].auth_key = response.auth
            \/ response.op = "update" /\ response.body[i] = new_ta(response.sent)

\* C26: an update changes neither the ids of the live set nor their number
\* and order, and an update whose body has another id, or none, than the
\* addressed binding is rejected and leaves live set and files as they were.
C26_IdentityImmutable ==
    [][response'.op = "update" =>
         /\ IdSeq(trigger_actions') = IdSeq(trigger_actions)
         /\ (response'.sent.valid /\ response'.sent.id # response'.id) =>
              /\ response'.status # 200
              /\ UNCHANGED <<files, trigger_actions>>]_vars

\* An update by the holder of the key, with a well-formed body that has no
\* id or the id of another binding, was answered 400.
C26_Witness ==
    /\ response.op = "update"
    /\ response.sent.valid
    /\ \/ response.status = 400 /\ response.sent.id = ""
       \/ response.status = 400 /\ response.sent.id \in Ids \ {response.id}

\* C29: a manual run of a live binding with its auth_key is answered
\* "scheduled" and has put exactly one task on the task queue; the event
\* queue and the watchers are as before.
C29_ManualRunScheduled ==
    [][(/\ response'.op = "run"
        /\ Find(trigger_actions, response'.id) # 0
        /\ trigger_actions[Find(trigger_actions, response'.id)].auth_key
             = response'.auth)
       => /\ response'.status = 200
          /\ worker' = Submitted
          /\ UNCHANGED <<_queue, _watcher_tasks>>]_vars

----------------------------------------------------------------------------
(* Properties of the definitions' validate *)

\* C27: validate of a trigger or action definition whose type is not
\* registered returns (False, "Unknown ... type: ...") and does not raise:
\* seen through TriggerAction.validate, which hands on what the trigger
\* definition's validate gives, and the action definition's after it.
C27_UnknownTypeReported ==
    Returned("validate") =>
        /\ call.ta.trigger.type \notin DOMAIN registry.trigger
             => /\ ~call.result.raised
                /\ ~call.result.ok
                /\ call.result.stage = "trigger"
        /\ (/\ DefinitionValidate(registry, "trigger", call.ta.trigger).ok
            /\ call.ta.action.type \notin DOMAIN registry.action)
             => /\ ~call.result.raised
                /\ ~call.result.ok
                /\ call.result.stage = "action"

----------------------------------------------------------------------------
(* Properties of the folder monitor *)

\* C28: a poll puts on the queue one event for each file created, modified
\* or deleted since the previous poll whose kind is among the configured
\* events, and nothing else: nothing at all when nothing changed; and the
\* snapshot it leaves is the folder as the poll found it.
C28_OnlyChangesEmitted ==
    folder.pc = "polled" =>
        /\ folder.put =
              {ChangeContext(c) :
                  c \in {d \in changed_files(folder.before, folder._snapshot) :
                            d.event \in folder.events}}
        /\ folder.before = folder._snapshot => folder.put = {}

----------------------------------------------------------------------------
(* Properties of watchers under delete and update *)

Range(seq) == {seq[i] : i \in DOMAIN seq}

\* C31: every running watcher belongs to a binding of the live set, so
\* after a delete no event of the deleted id is put on the queue or
\* submitted.
C31_DeleteStopsWatcher ==
    /\ [](\A i \in DOMAIN _watcher_tasks :
             _watcher_tasks[i].state = "running"
                 => _watcher_tasks[i].ta.id \in IdsOf(trigger_actions))
    /\ [][/\ emitted' # emitted
              => emitted'[Len(emitted')].ta.id \in IdsOf(trigger_actions)
          /\ attempts' # attempts
              => attempts'[Len(attempts')].ev.ta.id \in IdsOf(trigger_actions)]_vars

\* C32: an event a watcher puts on the queue for an id of the live set
\* carries a definition that is in the live set: after an update, the
\* updated one and not the one that was replaced.
C32_UpdateReachesWatcher ==
    [][emitted' # emitted =>
         LET ev == emitted'[Len(emitted')]
         IN  ev.ta.id \in IdsOf(trigger_actions)
                 => Dump(ev.ta) \in {Dump(t) : t \in Range(trigger_actions)}]_vars

----------------------------------------------------------------------------
(* Properties of failing spawns *)

HasWatcher(ta) == \E i \in DOMAIN _watcher_tasks : _watcher_tasks[i].ta = ta

\* C33: a call of add_trigger_action that fails (answered 500) leaves the
\* files, the live set and the watchers as they were, so that every binding
\* of the live set of a running scheduler has a watcher spawned for it.
C33_FailedAddChangesNothing ==
    /\ [][(adds' # adds /\ response'.status = 500)
            => UNCHANGED <<files, trigger_actions, _watcher_tasks>>]_vars
    /\ [](phase = "running"
            => \A j \in DOMAIN trigger_actions : HasWatcher(trigger_actions[j]))

\* C34: after start, whatever was loaded, the dispatcher runs and every
\* loaded definition whose trigger can be built has its watcher.
C34_StartupSurvivesBadDefinition ==
    phase # "init" =>
        /\ dispatcher = "running"
        /\ \A j \in DOMAIN trigger_actions :
               CanSpawn(trigger_actions[j]) => HasWatcher(trigger_actions[j])

----------------------------------------------------------------------------
(* Properties of the live set and the files under the management calls *)

\* C35: whatever was loaded, added, updated and deleted, no two bindings of
\* the live set have the same id, and no id has two watchers.
C35_LiveIdsDistinct ==
    /\ \A i, j \in DOMAIN trigger_actions :
           trigger_actions[i].id = trigger_actions[j].id => i = j
    /\ \A i, j \in DOMAIN _watcher_tasks :
           _watcher_tasks[i].ta.id = _watcher_tasks[j].ta.id => i = j

\* What a restart would load: the definitions of the live set that
\* _load_from_disk builds from the two directories as they are now.
Restarted(o1, o2) == {Dump(t) : t \in Range(LoadFromDisk(<<>>, o1, o2).tas)}

\* C36: at every moment of a running scheduler, a load from disk gives the
\* ids and definitions of the live set.
C36_RestartGivesLiveSet ==
    phase = "running" =>
        \A o1 \in GlobOrders(files), o2 \in GlobOrders(examples) :
            Restarted(o1, o2) = {Dump(t) : t \in Range(trigger_actions)}

----------------------------------------------------------------------------
(* Properties of the context handed to the action *)

\* C37: the context the dispatcher submits with a binding has the params
\* the one-shot run gives the context of the same binding and firing: the
\* binding's params merged in.
C37_ParamsAsOneShot ==
    \A k \in DOMAIN attempts :
        attempts[k].ev.ctx.params
            = once_ctx(attempts[k].ev.ta, attempts[k].ev.ctx).params

----------------------------------------------------------------------------
(* Properties of webhook routes *)

\* C38: a webhook binding has its route mounted and bound to its own
\* trigger whether it was loaded at startup or hot-added, so that a payload
\* posted to the route of a running webhook watcher is accepted.
C38_HotAddMountsRoute ==
    /\ \A i \in DOMAIN _watcher_tasks :
           (_watcher_tasks[i].state = "running" /\ HasRoute(_watcher_tasks[i].ta))
               => route(_watcher_tasks[i].ta) \in DOMAIN hooks.routes
    /\ response.op = "hook"
           => (response.status = 200
                 <=> \E i \in DOMAIN _watcher_tasks :
                         route(_watcher_tasks[i].ta) = response.path)

----------------------------------------------------------------------------
(* Properties of the queue *)

Submitted_events == [k \in DOMAIN attempts |-> attempts[k].ev]

\* C39: a watcher's put always gets through and appends its event; every
\* event ever put is on the queue or was taken by the dispatcher, in put
\* order; and while the application is not stopped, every event put on the
\* queue is eventually taken by the dispatcher.
C39_NoEventLost ==
    /\ [][emitted' # emitted
            => _queue' = Append(_queue, emitted'[Len(emitted')])]_vars
    /\ [](emitted = Submitted_events \o _queue)
    /\ \A k \in 1..(MaxEvents + 1) :
           (Len(emitted) >= k) ~> (Len(attempts) >= k \/ phase = "stopped")

\* Two events were put, both were taken by the dispatcher, and the
\* application is still running.
C39_Witness ==
    /\ Len(emitted) >= 2
    /\ Len(attempts) = Len(emitted)
    /\ _queue = << >>
    /\ phase = "running"

====
